---- MODULE Spec2Model ----
(***************************************************************************)
(* State-machine model of the three interactive demo views:               *)
(*   MobileSignup      (three-step signup wizard)                         *)
(*   EcommerceListing  (hero carousel, category + price filter, cart)     *)
(*   RestaurantMenu    (category tabs, tag filter chips)                  *)
(* One view is mounted per behaviour; every handler of the mounted view   *)
(* is one action.  Strings that the code inspects character by character  *)
(* (name, email, password) are sequences of one-character strings.        *)
(***************************************************************************)
EXTENDS Integers, Sequences, FiniteSets, TLC

VARIABLES
    view,              \* which page component is mounted
    catalog,           \* the static data the catalog views render: [products, menuItems]
    ev,                \* last UI event: [op, arg, fired]; fired = FALSE for a click on a disabled button
    currentStep,       \* MobileSignup
    showPassword,      \* MobileSignup
    formData,          \* MobileSignup: [name, email, password, interests]
    cartCount,         \* EcommerceListing
    currentSlide,      \* EcommerceListing
    selectedCategory,  \* EcommerceListing
    priceRange,        \* EcommerceListing: <<min, max>>
    activeCategory,    \* RestaurantMenu
    selectedFilters,   \* RestaurantMenu
    advStart,          \* carousel position at the start of the current run of nextSlide clicks
    advRun             \* length of the current run of consecutive nextSlide clicks (0: no run)

vars == <<view, catalog, ev, currentStep, showPassword, formData, cartCount, currentSlide,
          selectedCategory, priceRange, activeCategory, selectedFilters,
          advStart, advRun>>

signupVars == <<currentStep, showPassword, formData>>
shopVars   == <<cartCount, currentSlide, selectedCategory, priceRange, advStart, advRun>>
menuVars   == <<activeCategory, selectedFilters>>

(* ------------------------------ bounds -------------------------------- *)

MaxLen == 2          \* longest name / email typed
MaxPwLen == 7        \* longest password typed
NumInterests == 2    \* how many of the interest buttons are clicked
MaxCart == 2         \* cap on Add-to-Cart clicks
MaxSlides == 4       \* largest slide count tried for the generic cursor

(* --------------------- JavaScript library semantics ------------------- *)

\* Array.prototype.includes / String.prototype.includes for one element
Includes(arr, x) == \E i \in 1..Len(arr) : arr[i] = x

\* arr.filter(e => e !== x)
RECURSIVE FilterOut(_, _)
FilterOut(arr, x) ==
    IF arr = << >> THEN << >>
    ELSE IF Head(arr) # x THEN <<Head(arr)>> \o FilterOut(Tail(arr), x)
    ELSE FilterOut(Tail(arr), x)

\* String.prototype.trim: strip white space at both ends
RECURSIVE TrimStart(_)
TrimStart(s) ==
    IF s = << >> THEN << >>
    ELSE IF Head(s) = " " THEN TrimStart(Tail(s)) ELSE s

RECURSIVE TrimEnd(_)
TrimEnd(s) ==
    IF s = << >> THEN << >>
    ELSE IF s[Len(s)] = " " THEN TrimEnd(SubSeq(s, 1, Len(s) - 1)) ELSE s

Trim(s) == TrimEnd(TrimStart(s))

\* the % operator: the result takes the sign of the dividend
JsRem(a, b) == IF a >= 0 THEN a % b ELSE 0 - ((0 - a) % b)

\* parseInt of a string of decimal digits
RECURSIVE ParseInt(_)
ParseInt(ds) ==
    IF ds = << >> THEN 0
    ELSE 10 * ParseInt(SubSeq(ds, 1, Len(ds) - 1)) + ds[Len(ds)]

\* the value string a range input reports for slider position n
RECURSIVE ToDigits(_)
ToDigits(n) == IF n < 10 THEN <<n>> ELSE ToDigits(n \div 10) \o <<n % 10>>

\* all strings over alphabet A of length at most n
Strs(A, n) == UNION {[1..k -> A] : k \in 0..n}

(* ============================ MobileSignup ============================ *)

\* the interest buttons, in render order
interests == <<"Sports", "News", "Music", "Tech", "Art", "Food", "Travel", "Gaming">>

\* the interest buttons the model clicks
InterestInputs == {interests[i] : i \in 1..NumInterests}

\* the email address of the input's placeholder, "jane@example.com"
JaneEmail ==
    <<"j", "a", "n", "e", "@", "e", "x", "a", "m", "p", "l", "e", ".", "c", "o", "m">>

\* values the text inputs can deliver to onChange
NameInputs == Strs({"a", " "}, MaxLen)
EmailInputs == Strs({"a", "@"}, MaxLen) \cup {JaneEmail}
PasswordInputs == Strs({"x"}, MaxPwLen)

\* variant of NextStepOf that wraps around like the carousel
NextStepWrap(step) == JsRem(step + 1, 3)

\* variant of NextStepOf that goes straight to the last step
NextStepToLast(step) == IF step < 3 THEN 3 ELSE step

\* nextStep: if (currentStep < 3) setCurrentStep(currentStep + 1)
NextStepOf(step) == IF step < 3 THEN step + 1 ELSE step

\* prevStep: if (currentStep > 1) setCurrentStep(currentStep - 1)
PrevStepOf(step) == IF step > 1 THEN step - 1 ELSE step

\* variant of Toggle that removes the last element instead of the toggled one
ToggleDropLast(arr, x) ==
    IF Includes(arr, x) THEN SubSeq(arr, 1, Len(arr) - 1) ELSE Append(arr, x)

\* variant of Toggle that appends without looking for the element
ToggleAlwaysAppend(arr, x) == Append(arr, x)

\* prev.includes(x) ? prev.filter(e => e !== x) : [...prev, x]
\* (the body of both toggleInterest and toggleFilter)
Toggle(arr, x) == IF Includes(arr, x) THEN FilterOut(arr, x) ELSE Append(arr, x)

\* variant of Step1Disabled that forgets to trim the name
Step1DisabledNoTrim == formData.name = << >>

\* disabled={!formData.name.trim()}
Step1Disabled == Trim(formData.name) = << >>

\* variant of Step2Disabled that asks for more than 6 characters
Step2DisabledOffByOne ==
    \/ formData.email = << >>
    \/ formData.password = << >>
    \/ Len(formData.password) <= 6

\* disabled={!formData.email || !formData.password || formData.password.length < 6}
Step2Disabled ==
    \/ formData.email = << >>
    \/ formData.password = << >>
    \/ Len(formData.password) < 6

\* variant of SignUpDisabled that never disables the button
SignUpNeverDisabled == FALSE

\* disabled={formData.interests.length === 0}
SignUpDisabled == Len(formData.interests) = 0

\* formData.email && formData.email.includes('@'): the "Valid email format" hint
EmailHintShown == formData.email # << >> /\ Includes(formData.email, "@")

\* onChange={(e) => updateField('name', e.target.value)}, rendered on step 1
UpdateName(v) ==
    /\ view = "signup" /\ currentStep = 1
    /\ formData' = [formData EXCEPT !.name = v]
    /\ ev' = [op |-> "updateName", arg |-> v, fired |-> TRUE]
    /\ UNCHANGED <<view, catalog, currentStep, showPassword, shopVars, menuVars>>

\* onChange={(e) => updateField('email', e.target.value)}, rendered on step 2
UpdateEmail(v) ==
    /\ view = "signup" /\ currentStep = 2
    /\ formData' = [formData EXCEPT !.email = v]
    /\ ev' = [op |-> "updateEmail", arg |-> v, fired |-> TRUE]
    /\ UNCHANGED <<view, catalog, currentStep, showPassword, shopVars, menuVars>>

\* onChange={(e) => updateField('password', e.target.value)}, rendered on step 2
UpdatePassword(v) ==
    /\ view = "signup" /\ currentStep = 2
    /\ formData' = [formData EXCEPT !.password = v]
    /\ ev' = [op |-> "updatePassword", arg |-> v, fired |-> TRUE]
    /\ UNCHANGED <<view, catalog, currentStep, showPassword, shopVars, menuVars>>

\* onClick={() => setShowPassword(!showPassword)}, rendered on step 2
ToggleShowPassword ==
    /\ view = "signup" /\ currentStep = 2
    /\ showPassword' = ~showPassword
    /\ ev' = [op |-> "showPassword", arg |-> 0, fired |-> TRUE]
    /\ UNCHANGED <<view, catalog, currentStep, formData, shopVars, menuVars>>

\* step 1 Continue button: onClick={nextStep} unless disabled
ClickContinue1 ==
    /\ view = "signup" /\ currentStep = 1
    /\ currentStep' = IF Step1Disabled THEN currentStep ELSE NextStepOf(currentStep)
    /\ ev' = [op |-> "continue1", arg |-> 0, fired |-> ~Step1Disabled]
    /\ UNCHANGED <<view, catalog, showPassword, formData, shopVars, menuVars>>

\* step 2 Continue button: onClick={nextStep} unless disabled
ClickContinue2 ==
    /\ view = "signup" /\ currentStep = 2
    /\ currentStep' = IF Step2Disabled THEN currentStep ELSE NextStepOf(currentStep)
    /\ ev' = [op |-> "continue2", arg |-> 0, fired |-> ~Step2Disabled]
    /\ UNCHANGED <<view, catalog, showPassword, formData, shopVars, menuVars>>

\* variant of ClickBack that is disabled, like Continue, while step 2 does not validate
ClickBackGated ==
    /\ view = "signup" /\ currentStep \in {2, 3}
    /\ currentStep' = IF currentStep = 2 /\ Step2Disabled
                       THEN currentStep ELSE PrevStepOf(currentStep)
    /\ ev' = [op |-> "back", arg |-> currentStep,
               fired |-> ~(currentStep = 2 /\ Step2Disabled)]
    /\ UNCHANGED <<view, catalog, showPassword, formData, shopVars, menuVars>>

\* the back arrow and Back buttons of steps 2 and 3: onClick={prevStep}
ClickBack ==
    /\ view = "signup" /\ currentStep \in {2, 3}
    /\ currentStep' = PrevStepOf(currentStep)
    /\ ev' = [op |-> "back", arg |-> currentStep, fired |-> TRUE]
    /\ UNCHANGED <<view, catalog, showPassword, formData, shopVars, menuVars>>

\* an interest button of step 3: onClick={() => toggleInterest(interest)}
ClickInterest(i) ==
    /\ view = "signup" /\ currentStep = 3
    /\ formData' = [formData EXCEPT !.interests = Toggle(formData.interests, i)]
    /\ ev' = [op |-> "toggleInterest", arg |-> i, fired |-> TRUE]
    /\ UNCHANGED <<view, catalog, currentStep, showPassword, shopVars, menuVars>>

\* Sign Up button of step 3: onClick={() => alert(...)} unless disabled
ClickSignUp ==
    /\ view = "signup" /\ currentStep = 3
    /\ ev' = [op |-> "signUp", arg |-> 0, fired |-> ~SignUpDisabled]
    /\ UNCHANGED <<view, catalog, signupVars, shopVars, menuVars>>

SignupNext ==
    \/ \E v \in NameInputs : UpdateName(v)
    \/ \E v \in EmailInputs : UpdateEmail(v)
    \/ \E v \in PasswordInputs : UpdatePassword(v)
    \/ ToggleShowPassword
    \/ ClickContinue1
    \/ ClickContinue2
    \/ ClickBack
    \/ \E i \in InterestInputs : ClickInterest(i)
    \/ ClickSignUp

(* ========================== EcommerceListing ========================== *)

\* the hero slides (titles), in render order
heroSlides == <<"New Arrivals", "Summer Sale", "Premium Quality">>

\* the category buttons (ids), in render order
shopCategories == <<"all", "clothing", "accessories", "shoes", "bags">>

\* the sample products; badge "none" stands for null
products == <<
    [id |-> 1, price |-> 45,  category |-> "clothing",    badge |-> "Sale"],
    [id |-> 2, price |-> 120, category |-> "bags",        badge |-> "New"],
    [id |-> 3, price |-> 85,  category |-> "shoes",       badge |-> "Popular"],
    [id |-> 4, price |-> 35,  category |-> "accessories", badge |-> "none"],
    [id |-> 5, price |-> 89,  category |-> "clothing",    badge |-> "Sale"],
    [id |-> 6, price |-> 299, category |-> "accessories", badge |-> "Premium"] >>

\* range input attributes min="0" max="500"
SliderMin == 0
SliderMax == 500

\* slider positions tried: both ends and every product price with its neighbours
SliderPositions ==
    {SliderMin, SliderMax} \cup
    {products[i].price + d : i \in 1..Len(products), d \in {0 - 1, 0, 1}}

\* the value strings the range input hands to onChange
SliderInputs == {ToDigits(n) : n \in SliderPositions}

\* variant of ProductPasses with an exclusive upper bound
ProductPassesExclusiveMax(product, cat, range) ==
    /\ (cat = "all" \/ product.category = cat)
    /\ product.price >= range[1] /\ product.price < range[2]

\* variant of ProductPasses that ignores the category
ProductPassesNoCategory(product, cat, range) ==
    product.price >= range[1] /\ product.price <= range[2]

\* the predicate of products.filter(...)
ProductPasses(product, cat, range) ==
    /\ (cat = "all" \/ product.category = cat)
    /\ product.price >= range[1] /\ product.price <= range[2]

\* products.filter(product => ...): keeps the passing elements in array order
RECURSIVE FilterProducts(_, _, _)
FilterProducts(arr, cat, range) ==
    IF arr = << >> THEN << >>
    ELSE IF ProductPasses(Head(arr), cat, range)
         THEN <<Head(arr)>> \o FilterProducts(Tail(arr), cat, range)
         ELSE FilterProducts(Tail(arr), cat, range)

\* variant of filteredProducts that collects the kept products back to front
filteredProductsReversed ==
    LET kept == FilterProducts(catalog.products, selectedCategory, priceRange)
    IN  [i \in 1..Len(kept) |-> kept[Len(kept) + 1 - i]]

\* const filteredProducts = products.filter(...), recomputed on every render
filteredProducts == FilterProducts(catalog.products, selectedCategory, priceRange)

\* the product evaluator as a function of a whole filter state: the filter callback
\* reads selectedCategory and priceRange only, so a label selection has no effect
ProductEvaluator(cat, labels, range) == FilterProducts(catalog.products, cat, range)

\* variant of NextSlidePos that wraps one position too late
NextSlideOffByOne(prev, n) == JsRem(prev + 1, n + 1)

\* (prev + 1) % heroSlides.length, for a slide count n
NextSlidePos(prev, n) == JsRem(prev + 1, n)

\* variant of PrevSlidePos without the "+ length" before the remainder
PrevSlideNoAdd(prev, n) == JsRem(prev - 1, n)

\* variant of PrevSlidePos that stops at the first slide instead of wrapping
PrevSlideClamp(prev, n) == IF prev > 0 THEN prev - 1 ELSE 0

\* (prev - 1 + heroSlides.length) % heroSlides.length, for a slide count n
PrevSlidePos(prev, n) == JsRem(prev - 1 + n, n)

\* the next-arrow button: onClick={nextSlide}
nextSlide ==
    /\ view = "shop"
    /\ currentSlide' = NextSlidePos(currentSlide, Len(heroSlides))
    /\ IF advRun = 0 \/ advRun >= Len(heroSlides)
       THEN advStart' = currentSlide /\ advRun' = 1
       ELSE advStart' = advStart /\ advRun' = advRun + 1
    /\ ev' = [op |-> "nextSlide", arg |-> 0, fired |-> TRUE]
    /\ UNCHANGED <<view, catalog, cartCount, selectedCategory, priceRange, signupVars, menuVars>>

\* the previous-arrow button: onClick={prevSlide}
prevSlide ==
    /\ view = "shop"
    /\ currentSlide' = PrevSlidePos(currentSlide, Len(heroSlides))
    /\ advStart' = 0 /\ advRun' = 0
    /\ ev' = [op |-> "prevSlide", arg |-> 0, fired |-> TRUE]
    /\ UNCHANGED <<view, catalog, cartCount, selectedCategory, priceRange, signupVars, menuVars>>

\* variant of IndicatorIndices that counts the dots from 1
IndicatorIndicesOneBased == {i : i \in 1..Len(heroSlides)}

\* the index heroSlides.map((_, index) => ...) hands to each indicator dot
IndicatorIndices == {i - 1 : i \in 1..Len(heroSlides)}

\* an indicator dot: heroSlides.map((_, index) => ... onClick={() => setCurrentSlide(index)})
ClickIndicator(index) ==
    /\ view = "shop"
    /\ currentSlide' = index
    /\ advStart' = 0 /\ advRun' = 0
    /\ ev' = [op |-> "setCurrentSlide", arg |-> index, fired |-> TRUE]
    /\ UNCHANGED <<view, catalog, cartCount, selectedCategory, priceRange, signupVars, menuVars>>

\* variant of ClickCategory that stores the button's display name instead of its id
ClickCategoryByName(id) ==
    /\ view = "shop"
    /\ selectedCategory' = (CASE id = "all" -> "All Products"
                              [] id = "clothing" -> "Clothing"
                              [] id = "accessories" -> "Accessories"
                              [] id = "shoes" -> "Shoes"
                              [] OTHER -> "Bags")
    /\ ev' = [op |-> "setSelectedCategory", arg |-> id, fired |-> TRUE]
    /\ UNCHANGED <<view, catalog, cartCount, currentSlide, priceRange, advStart, advRun,
                   signupVars, menuVars>>

\* variant of ClickCategory that also rewinds the carousel to the first slide
ClickCategoryResetsSlide(id) ==
    /\ view = "shop"
    /\ selectedCategory' = id
    /\ currentSlide' = 0
    /\ ev' = [op |-> "setSelectedCategory", arg |-> id, fired |-> TRUE]
    /\ UNCHANGED <<view, catalog, cartCount, priceRange, advStart, advRun,
                   signupVars, menuVars>>

\* a category button: onClick={() => setSelectedCategory(category.id)}
ClickCategory(id) ==
    /\ view = "shop"
    /\ selectedCategory' = id
    /\ ev' = [op |-> "setSelectedCategory", arg |-> id, fired |-> TRUE]
    /\ UNCHANGED <<view, catalog, cartCount, currentSlide, priceRange, advStart, advRun,
                   signupVars, menuVars>>

\* variant of SliderChange that writes the slider value to the lower end of the range
SliderChangeSetsMin(value) ==
    /\ view = "shop"
    /\ priceRange' = <<ParseInt(value), priceRange[2]>>
    /\ ev' = [op |-> "setPriceRange", arg |-> value, fired |-> TRUE]
    /\ UNCHANGED <<view, catalog, cartCount, currentSlide, selectedCategory, advStart, advRun,
                   signupVars, menuVars>>

\* the slider: onChange={(e) => setPriceRange([priceRange[0], parseInt(e.target.value)])}
SliderChange(value) ==
    /\ view = "shop"
    /\ priceRange' = <<priceRange[1], ParseInt(value)>>
    /\ ev' = [op |-> "setPriceRange", arg |-> value, fired |-> TRUE]
    /\ UNCHANGED <<view, catalog, cartCount, currentSlide, selectedCategory, advStart, advRun,
                   signupVars, menuVars>>

\* {cartCount > 0 && <Badge>{cartCount}</Badge>}: whether the cart badge is rendered
CartBadgeShown == cartCount > 0

\* variant of addToCart that adds the listed product's position instead of 1
addToCartByPosition(i) ==
    /\ view = "shop"
    /\ i \in 1..Len(filteredProducts)
    /\ cartCount < MaxCart
    /\ cartCount' = cartCount + i
    /\ ev' = [op |-> "addToCart", arg |-> filteredProducts[i].id, fired |-> TRUE]
    /\ UNCHANGED <<view, catalog, currentSlide, selectedCategory, priceRange, advStart, advRun,
                   signupVars, menuVars>>

\* the Add to Cart button of a listed product: onClick={addToCart}
addToCart(i) ==
    /\ view = "shop"
    /\ i \in 1..Len(filteredProducts)
    /\ cartCount < MaxCart
    /\ cartCount' = cartCount + 1
    /\ ev' = [op |-> "addToCart", arg |-> filteredProducts[i].id, fired |-> TRUE]
    /\ UNCHANGED <<view, catalog, currentSlide, selectedCategory, priceRange, advStart, advRun,
                   signupVars, menuVars>>

ShopNext ==
    \/ nextSlide
    \/ prevSlide
    \/ \E index \in IndicatorIndices : ClickIndicator(index)
    \/ \E k \in 1..Len(shopCategories) : ClickCategory(shopCategories[k])
    \/ \E value \in SliderInputs : SliderChange(value)
    \/ \E i \in 1..Len(products) : addToCart(i)

(* =========================== RestaurantMenu =========================== *)

\* the category tabs (ids), in render order; also the key order of menuItems
menuCategories == <<"appetizers", "mains", "desserts", "drinks">>

\* the filter chips (ids), in render order
filters == <<"popular", "vegetarian", "spicy">>

\* the sample menu, keyed by category
menuItems == [c \in {"appetizers", "mains", "desserts", "drinks"} |->
    CASE c = "appetizers" ->
           << [id |-> 1, tags |-> <<"vegetarian", "popular">>],
              [id |-> 2, tags |-> <<"popular">>],
              [id |-> 3, tags |-> <<"spicy">>] >>
      [] c = "mains" ->
           << [id |-> 4, tags |-> <<"popular">>],
              [id |-> 5, tags |-> <<"popular">>],
              [id |-> 6, tags |-> <<"vegetarian">>] >>
      [] c = "desserts" ->
           << [id |-> 7, tags |-> <<"popular">>],
              [id |-> 8, tags |-> <<"vegetarian">>] >>
      [] c = "drinks" ->
           << [id |-> 9, tags |-> <<"popular">>],
              [id |-> 10, tags |-> <<"spicy">>] >> ]

\* variant of ItemPasses that asks for every selected label (every instead of some)
ItemPassesAllMatch(item, sel) ==
    Len(sel) = 0 \/ \A k \in 1..Len(sel) : Includes(item.tags, sel[k])

\* variant of ItemPasses that tests only the label that was selected first
ItemPassesFirstOnly(item, sel) ==
    Len(sel) = 0 \/ Includes(item.tags, sel[1])

\* selectedFilters.length === 0 || selectedFilters.some(filter => item.tags.includes(filter))
ItemPasses(item, sel) ==
    Len(sel) = 0 \/ \E k \in 1..Len(sel) : Includes(item.tags, sel[k])

\* arr.filter(item => ...): keeps the passing elements in array order
RECURSIVE FilterItems(_, _)
FilterItems(arr, sel) ==
    IF arr = << >> THEN << >>
    ELSE IF ItemPasses(Head(arr), sel)
         THEN <<Head(arr)>> \o FilterItems(Tail(arr), sel)
         ELSE FilterItems(Tail(arr), sel)

\* menuItems[activeCategory]?.filter(...) || []
FilteredItemsOf(cat, sel) ==
    IF cat \in DOMAIN catalog.menuItems
    THEN FilterItems(catalog.menuItems[cat], sel) ELSE << >>

\* const filteredItems = ..., recomputed on every render
filteredItems == FilteredItemsOf(activeCategory, selectedFilters)

\* variant of ClickTab that also clears the label selection
ClickTabClearsFilters(id) ==
    /\ view = "menu"
    /\ activeCategory' = id
    /\ selectedFilters' = << >>
    /\ ev' = [op |-> "setActiveCategory", arg |-> id, fired |-> TRUE]
    /\ UNCHANGED <<view, catalog, signupVars, shopVars>>

\* a category tab: onClick={() => setActiveCategory(category.id)}
ClickTab(id) ==
    /\ view = "menu"
    /\ activeCategory' = id
    /\ ev' = [op |-> "setActiveCategory", arg |-> id, fired |-> TRUE]
    /\ UNCHANGED <<view, catalog, selectedFilters, signupVars, shopVars>>

\* variant of toggleFilter that filters the category's list in place
toggleFilterInPlace(filterId) ==
    /\ view = "menu"
    /\ selectedFilters' = Toggle(selectedFilters, filterId)
    /\ catalog' = [catalog EXCEPT !.menuItems[activeCategory] =
                        FilterItems(@, Toggle(selectedFilters, filterId))]
    /\ ev' = [op |-> "toggleFilter", arg |-> filterId, fired |-> TRUE]
    /\ UNCHANGED <<view, activeCategory, signupVars, shopVars>>

\* a filter chip: onClick={() => toggleFilter(filter.id)}
toggleFilter(filterId) ==
    /\ view = "menu"
    /\ selectedFilters' = Toggle(selectedFilters, filterId)
    /\ ev' = [op |-> "toggleFilter", arg |-> filterId, fired |-> TRUE]
    /\ UNCHANGED <<view, catalog, activeCategory, signupVars, shopVars>>

MenuNext ==
    \/ \E k \in 1..Len(menuCategories) : ClickTab(menuCategories[k])
    \/ \E k \in 1..Len(filters) : toggleFilter(filters[k])

(* ============================ specification =========================== *)

\* the useState initial values of the three components; one of them is mounted
Init ==
    /\ view \in {"signup", "shop", "menu"}
    /\ catalog = [products |-> products, menuItems |-> menuItems]
    /\ ev = [op |-> "mount", arg |-> 0, fired |-> TRUE]
    /\ currentStep = 1
    /\ showPassword = FALSE
    /\ formData = [name |-> << >>, email |-> << >>, password |-> << >>, interests |-> << >>]
    /\ cartCount = 0
    /\ currentSlide = 0
    /\ selectedCategory = "all"
    /\ priceRange = <<0, 500>>
    /\ activeCategory = "appetizers"
    /\ selectedFilters = << >>
    /\ advStart = 0
    /\ advRun = 0

Next == SignupNext \/ ShopNext \/ MenuNext

Spec == Init /\ [][Next]_vars

\* the signup wizard alone
InitSignup == Init /\ view = "signup"

SpecSignup == InitSignup /\ [][SignupNext]_vars

\* the two catalog views (product listing, restaurant menu) alone
InitCatalog == Init /\ view \in {"shop", "menu"}

CatalogNext == ShopNext \/ MenuNext

SpecCatalog == InitCatalog /\ [][CatalogNext]_vars

(* ======================= properties: helpers ========================== *)

\* the set of elements of a sequence
Range(seq) == {seq[i] : i \in 1..Len(seq)}

\* the ids of a sequence of items, in order
Ids(seq) == [i \in 1..Len(seq) |-> seq[i].id]

\* the position of the item with the given id in a list of items with unique ids
PosOf(seq, id) == CHOOSE j \in 1..Len(seq) : seq[j].id = id

\* result lists exactly the entries of items whose id is in keep, each once, in their order
IsStableSelection(result, items, keep) ==
    /\ \A i \in 1..Len(result) :
          \E j \in 1..Len(items) : items[j].id = result[i].id /\ items[j].id \in keep
    /\ \A j \in 1..Len(items) :
          items[j].id \in keep => \E i \in 1..Len(result) : result[i].id = items[j].id
    /\ \A i1, i2 \in 1..Len(result) :
          i1 < i2 => PosOf(items, result[i1].id) < PosOf(items, result[i2].id)

\* the whole menu as one catalog: every entry tagged with its category, in key order
RECURSIVE MenuCatalogFrom(_)
MenuCatalogFrom(k) ==
    IF k > Len(menuCategories) THEN << >>
    ELSE [i \in 1..Len(menuItems[menuCategories[k]]) |->
            [id       |-> menuItems[menuCategories[k]][i].id,
             labels   |-> Range(menuItems[menuCategories[k]][i].tags),
             category |-> menuCategories[k]]]
         \o MenuCatalogFrom(k + 1)

MenuCatalog == MenuCatalogFrom(1)

\* the facets of section 4.1, stated on the filter state
CategoryFacet(item, selected) == selected = "all" \/ item.category = selected
LabelFacet(item, selected) == selected = {} \/ item.labels \cap selected # {}
RangeFacet(item, range) == range[1] <= item.price /\ item.price <= range[2]

ProductFacets(p) == CategoryFacet(p, selectedCategory) /\ RangeFacet(p, priceRange)
MenuFacets(e) == CategoryFacet(e, activeCategory) /\ LabelFacet(e, Range(selectedFilters))

ProductVisible(p) == \E k \in 1..Len(filteredProducts) : filteredProducts[k] = p
MenuVisible(e) == \E k \in 1..Len(filteredItems) : filteredItems[k].id = e.id

\* the step predicates of section 4.3
NameValid == Trim(formData.name) # << >>
AccountValid == Includes(formData.email, "@") /\ Len(formData.password) >= 6
InterestsValid == formData.interests # << >>
StepValid ==
    CASE currentStep = 1 -> NameValid
      [] currentStep = 2 -> AccountValid
      [] OTHER -> InterestsValid

(* ============================ properties ============================== *)

\* C1: after a click on the step-2 Continue button, the click advanced the wizard
\* if and only if the email contains "@" and the password has 6 or more characters;
\* otherwise currentStep stays 2.
C1_ContinueIffAtAndSixChars ==
    ev.op = "continue2" =>
        /\ ev.fired <=> AccountValid
        /\ currentStep = (IF AccountValid THEN 3 ELSE 2)

\* C2: an advance attempted from the final step, or from a step whose validation
\* predicate fails, changes neither currentStep nor the form data.
C2_AdvanceNoOpWhenInvalid ==
    [][ (ev'.op \in {"continue1", "continue2"} /\ (currentStep = 3 \/ ~StepValid))
            => UNCHANGED <<currentStep, formData>> ]_vars

\* C3: the visible list is a stable selection of the catalog: exactly the items that
\* satisfy every active facet, each at most once, in the catalog's order.
C3_ResultIsStableSelection ==
    /\ IsStableSelection(filteredProducts, products,
            {products[j].id : j \in {j \in 1..Len(products) : ProductFacets(products[j])}})
    /\ IsStableSelection(filteredItems, MenuCatalog,
            {MenuCatalog[j].id : j \in {j \in 1..Len(MenuCatalog) : MenuFacets(MenuCatalog[j])}})

C3_Witness ==
    /\ view = "menu" /\ activeCategory = "appetizers"
    /\ Len(selectedFilters) = 2
    /\ Ids(filteredItems) = <<1, 3>>

\* C4 (as claimed): with a non-empty label selection, every listed item shares a label
\* with the selection, every listed item is in the catalog, and no catalog item that
\* shares a label with the selection is missing from the list.
C4_NoLabelMatchOmitted ==
    selectedFilters # << >> =>
        /\ \A k \in 1..Len(filteredItems) :
              /\ Range(filteredItems[k].tags) \cap Range(selectedFilters) # {}
              /\ \E j \in 1..Len(MenuCatalog) : MenuCatalog[j].id = filteredItems[k].id
        /\ \A j \in 1..Len(MenuCatalog) :
              MenuCatalog[j].labels \cap Range(selectedFilters) # {}
                  => MenuVisible(MenuCatalog[j])

\* C4 (amended): with a non-empty label selection, every listed item shares a label
\* with the selection, every listed item is in the catalog, and no catalog item of the
\* active category that shares a label with the selection is missing from the list.
C4_NoLabelMatchOmittedInCategory ==
    selectedFilters # << >> =>
        /\ \A k \in 1..Len(filteredItems) :
              /\ Range(filteredItems[k].tags) \cap Range(selectedFilters) # {}
              /\ \E j \in 1..Len(MenuCatalog) : MenuCatalog[j].id = filteredItems[k].id
        /\ \A j \in 1..Len(MenuCatalog) :
              (/\ MenuCatalog[j].category = activeCategory
               /\ MenuCatalog[j].labels \cap Range(selectedFilters) # {})
                  => MenuVisible(MenuCatalog[j])

\* a listed item that carries only one of two selected labels
C4_Witness ==
    /\ view = "menu" /\ Len(selectedFilters) = 2
    /\ \E k \in 1..Len(filteredItems) :
          \E f \in Range(selectedFilters) : f \notin Range(filteredItems[k].tags)

\* C5 (as claimed): whenever the category is "all" and no label is selected, the
\* evaluator returns the full catalog in its original order.
C5_AllAndNoLabelsGivesCatalog ==
    /\ selectedCategory = "all" => filteredProducts = products
    /\ (activeCategory = "all" /\ selectedFilters = << >>)
          => Ids(filteredItems) = Ids(MenuCatalog)

\* C5 (amended): whenever the category is "all", no label is selected and the price
\* range contains every product's price, the evaluator returns the full catalog in
\* its original order.
C5_AllAndFullRangeGivesCatalog ==
    /\ (selectedCategory = "all" /\ \A i \in 1..Len(products) : RangeFacet(products[i], priceRange))
          => filteredProducts = products
    /\ (activeCategory = "all" /\ selectedFilters = << >>)
          => Ids(filteredItems) = Ids(MenuCatalog)

\* the slider was moved to the highest price and the list is still the whole catalog
C5_Witness ==
    /\ view = "shop" /\ ev.op = "setPriceRange"
    /\ selectedCategory = "all" /\ priceRange[2] = 299
    /\ filteredProducts = products

\* C6: a product of the selected category is listed if and only if
\* priceRange.min <= price <= priceRange.max, both bounds included.
C6_RangeFacetInclusive ==
    \A i \in 1..Len(products) :
        CategoryFacet(products[i], selectedCategory) =>
            (ProductVisible(products[i]) <=>
                (priceRange[1] <= products[i].price /\ products[i].price <= priceRange[2]))

\* the slider stands on a product's price: that product is listed, a dearer one is not
C6_Witness ==
    /\ view = "shop" /\ ev.op = "setPriceRange" /\ selectedCategory = "all"
    /\ priceRange[2] = products[3].price
    /\ ProductVisible(products[3]) /\ ~ProductVisible(products[5])

\* C7: an item within the other facets is listed if and only if the selected category
\* is "all" or equals the item's category, and a category click leaves exactly the
\* clicked category selected.
C7_CategoryFacetSingleSelect ==
    /\ \A i \in 1..Len(products) :
          RangeFacet(products[i], priceRange) =>
              (ProductVisible(products[i]) <=>
                  (selectedCategory = "all" \/ products[i].category = selectedCategory))
    /\ \A j \in 1..Len(MenuCatalog) :
          LabelFacet(MenuCatalog[j], Range(selectedFilters)) =>
              (MenuVisible(MenuCatalog[j]) <=>
                  (activeCategory = "all" \/ MenuCatalog[j].category = activeCategory))
    /\ ev.op = "setSelectedCategory" => selectedCategory = ev.arg
    /\ ev.op = "setActiveCategory" => activeCategory = ev.arg

\* a category was clicked and only its products are listed
C7_Witness ==
    /\ view = "shop" /\ ev.op = "setSelectedCategory"
    /\ selectedCategory = "accessories" /\ priceRange[2] = SliderMax
    /\ Ids(filteredProducts) = <<4, 6>>

\* C8: toggling a selected label (interest) removes it, and toggling an unselected one
\* on and off again gives back the same selection and the same visible list.
C8_ToggleRoundTrip ==
    /\ \A k \in 1..Len(filters) :
          IF Includes(selectedFilters, filters[k])
          THEN ~Includes(Toggle(selectedFilters, filters[k]), filters[k])
          ELSE /\ Includes(Toggle(selectedFilters, filters[k]), filters[k])
               /\ Toggle(Toggle(selectedFilters, filters[k]), filters[k]) = selectedFilters
               /\ FilteredItemsOf(activeCategory,
                                  Toggle(Toggle(selectedFilters, filters[k]), filters[k]))
                     = filteredItems
    /\ \A k \in 1..Len(interests) :
          IF Includes(formData.interests, interests[k])
          THEN ~Includes(Toggle(formData.interests, interests[k]), interests[k])
          ELSE Toggle(Toggle(formData.interests, interests[k]), interests[k])
                  = formData.interests
    /\ ev.op = "toggleFilter" =>
          Cardinality({k \in 1..Len(selectedFilters) : selectedFilters[k] = ev.arg}) <= 1

\* a label was switched off again while another label stays selected
C8_Witness ==
    /\ view = "menu" /\ ev.op = "toggleFilter"
    /\ ~Includes(selectedFilters, ev.arg)
    /\ Len(selectedFilters) = 2

\* C9: the carousel position always satisfies 0 <= currentSlide < N, N = 3 slides.
C9_SlideInRange ==
    /\ Len(heroSlides) = 3
    /\ currentSlide \in 0..(Len(heroSlides) - 1)

\* the previous-arrow wrapped from the first slide to the last
C9_Witness ==
    /\ view = "shop" /\ ev.op = "prevSlide"
    /\ currentSlide = Len(heroSlides) - 1

\* n applications of the advance, for a carousel of n slides
RECURSIVE IterNext(_, _, _)
IterNext(p, n, k) == IF k = 0 THEN p ELSE IterNext(NextSlidePos(p, n), n, k - 1)

\* C10: N consecutive nextSlide clicks bring the carousel back to the position it
\* started from, and the advance has this cyclic closure for every slide count n >= 1.
C10_AdvanceCyclicClosure ==
    /\ advRun = Len(heroSlides) => currentSlide = advStart
    /\ \A n \in 1..MaxSlides : \A p \in 0..(n - 1) : IterNext(p, n, n) = p

\* a run of N nextSlide clicks that started in the middle has just ended
C10_Witness ==
    /\ view = "shop" /\ ev.op = "nextSlide"
    /\ advRun = Len(heroSlides) /\ advStart = 1

\* C11: nextSlide sets the position to (position + 1) mod N and prevSlide sets it to
\* (position - 1 + N) mod N: from the last slide the advance goes to slide 0, from
\* slide 0 the retreat goes to the last slide.
C11_AdvanceRetreatWrap ==
    [][ /\ ev'.op = "nextSlide" =>
              /\ currentSlide' = (currentSlide + 1) % Len(heroSlides)
              /\ (currentSlide = Len(heroSlides) - 1 => currentSlide' = 0)
        /\ ev'.op = "prevSlide" =>
              /\ currentSlide' = (currentSlide - 1 + Len(heroSlides)) % Len(heroSlides)
              /\ (currentSlide = 0 => currentSlide' = Len(heroSlides) - 1) ]_vars

\* the next-arrow wrapped from the last slide to the first
C11_Witness ==
    /\ view = "shop" /\ ev.op = "nextSlide"
    /\ currentSlide = 0 /\ advRun >= 1
    /\ (advStart + advRun - 1) % Len(heroSlides) = Len(heroSlides) - 1

\* C12: a click on indicator k sets the position to exactly k, and every k that an
\* indicator passes satisfies 0 <= k < N, so no out-of-range jump reaches the state.
C12_JumpSetsExactlyInRange ==
    ev.op = "setCurrentSlide" =>
        /\ ev.arg \in 0..(Len(heroSlides) - 1)
        /\ currentSlide = ev.arg

\* a jump to the last slide
C12_Witness ==
    /\ view = "shop" /\ ev.op = "setCurrentSlide"
    /\ ev.arg = Len(heroSlides) - 1 /\ currentSlide = Len(heroSlides) - 1

\* C13: the wizard step always satisfies 1 <= currentStep <= 3; it is 1 on mount.
C13_StepInRange ==
    /\ currentStep \in 1..3
    /\ ev.op = "mount" => currentStep = 1

\* the whole wizard was walked through and Sign Up clicked on the last step
C13_Witness ==
    /\ view = "signup" /\ ev.op = "signUp" /\ ev.fired
    /\ currentStep = 3

\* the larger of two integers
Max(a, b) == IF a >= b THEN a ELSE b

\* C14: a Back click sets currentStep to max(currentStep - 1, 1) and leaves the form
\* data unchanged, and Back can be clicked on steps 2 and 3 whether or not the
\* step's fields validate.
C14_RetreatAlwaysPermitted ==
    /\ []((view = "signup" /\ currentStep \in {2, 3}) => ENABLED ClickBack)
    /\ [][ ev'.op = "back" =>
              /\ currentStep' = Max(currentStep - 1, 1)
              /\ formData' = formData ]_vars

\* Back was clicked on step 2 while its fields did not validate, with a name entered
C14_Witness ==
    /\ view = "signup" /\ ev.op = "back" /\ ev.arg = 2
    /\ currentStep = 1
    /\ ~AccountValid /\ Step2Disabled
    /\ formData.name # << >>

\* a string with a character that is not white space
HasNonSpace(str) == \E i \in 1..Len(str) : str[i] # " "

\* C15: a click on the step-1 Continue button advances to step 2 if and only if the
\* name has a character other than white space; otherwise currentStep stays 1.
C15_NameGate ==
    /\ ev.op = "continue1" =>
          /\ ev.fired <=> HasNonSpace(formData.name)
          /\ currentStep = (IF HasNonSpace(formData.name) THEN 2 ELSE 1)
    /\ (view = "signup" /\ currentStep = 1) =>
          (Step1Disabled <=> ~HasNonSpace(formData.name))

\* Continue was clicked with a name of white space only and did not advance
C15_Witness ==
    /\ view = "signup" /\ ev.op = "continue1" /\ ~ev.fired
    /\ formData.name # << >> /\ ~HasNonSpace(formData.name)
    /\ currentStep = 1

\* C16: a click on Sign Up takes effect if and only if at least one interest is
\* selected; with the last selected interest switched off the button is disabled.
C16_SignUpGate ==
    /\ ev.op = "signUp" => (ev.fired <=> Range(formData.interests) # {})
    /\ (view = "signup" /\ currentStep = 3) =>
          (SignUpDisabled <=> Range(formData.interests) = {})

\* the last selected interest was just switched off and Sign Up is disabled again
C16_Witness ==
    /\ view = "signup" /\ ev.op = "toggleInterest"
    /\ formData.interests = << >> /\ SignUpDisabled
    /\ currentStep = 3

\* C17: on step 2 with the email "jane@example.com", a Continue click with a password
\* of length 4 is rejected (currentStep stays 2) and one with a password of length 6
\* advances from step 2 to step 3.
C17_JaneScenario ==
    (ev.op = "continue2" /\ formData.email = JaneEmail) =>
        /\ Len(formData.password) = 4 => (~ev.fired /\ currentStep = 2)
        /\ Len(formData.password) = 6 => (ev.fired /\ currentStep = 3)

\* the advance succeeded with the 6-character password
C17_Witness ==
    /\ view = "signup" /\ ev.op = "continue2" /\ ev.fired
    /\ formData.email = JaneEmail /\ Len(formData.password) = 6
    /\ currentStep = 3

\* C18: with the 6-product catalog, category "clothing", price range (0, 500) and no
\* labels, the evaluator returns exactly products 1 and 5, in catalog order.
C18_ClothingScenario ==
    /\ Len(products) = 6
    /\ (selectedCategory = "clothing" /\ priceRange = <<0, 500>>) =>
          /\ Ids(filteredProducts) = <<1, 5>>
          /\ \A k \in 1..Len(filteredProducts) : filteredProducts[k].category = "clothing"

\* the clothing button was clicked with the slider untouched
C18_Witness ==
    /\ view = "shop" /\ ev.op = "setSelectedCategory"
    /\ selectedCategory = "clothing" /\ priceRange = <<0, 500>>
    /\ Len(filteredProducts) = 2

\* the ids of the products that carry the given badge, in catalog order
RECURSIVE IdsWithBadge(_, _)
IdsWithBadge(arr, badge) ==
    IF arr = << >> THEN << >>
    ELSE IF Head(arr).badge = badge
         THEN <<Head(arr).id>> \o IdsWithBadge(Tail(arr), badge)
         ELSE IdsWithBadge(Tail(arr), badge)

\* C19: with the label selection {"sale"} and category "all" on the product catalog,
\* the evaluator returns exactly the products that carry the label "sale" (2 items).
C19_SaleLabelScenario ==
    (view = "shop" /\ selectedCategory = "all" /\ priceRange = <<0, 500>>) =>
        /\ Ids(ProductEvaluator(selectedCategory, {"Sale"}, priceRange))
              = IdsWithBadge(products, "Sale")
        /\ Len(ProductEvaluator(selectedCategory, {"Sale"}, priceRange)) = 2

\* a step changes a component of the filter state only if it is that component's action
FilterStateChangesByOwnAction ==
    /\ (selectedCategory' # selectedCategory => ev'.op = "setSelectedCategory")
    /\ (priceRange' # priceRange => ev'.op = "setPriceRange")
    /\ (activeCategory' # activeCategory => ev'.op = "setActiveCategory")
    /\ (selectedFilters' # selectedFilters => ev'.op = "toggleFilter")

\* C20 (as claimed): on mount every filtering view has category "all", no label
\* selected and (product view) the full price range; afterwards the filter state
\* changes only through category, label and slider actions.
C20_DefaultsAllOnMount ==
    /\ []((ev.op = "mount" /\ view = "shop") =>
            (selectedCategory = "all" /\ priceRange = <<SliderMin, SliderMax>>))
    /\ []((ev.op = "mount" /\ view = "menu") =>
            (activeCategory = "all" /\ selectedFilters = << >>))
    /\ [][FilterStateChangesByOwnAction]_vars

\* C20 (amended): on mount the product view has category "all" and the full price
\* range, and the menu view has category "appetizers" and no label selected;
\* afterwards the filter state changes only through category, label and slider actions.
C20_DefaultsOnMount ==
    /\ []((ev.op = "mount" /\ view = "shop") =>
            (selectedCategory = "all" /\ priceRange = <<SliderMin, SliderMax>>))
    /\ []((ev.op = "mount" /\ view = "menu") =>
            (activeCategory = "appetizers" /\ selectedFilters = << >>))
    /\ [][FilterStateChangesByOwnAction]_vars

\* the menu view as mounted
C20_Witness ==
    /\ view = "menu" /\ ev.op = "mount"
    /\ activeCategory = "appetizers" /\ selectedFilters = << >>

\* C21: in every reachable state of the product listing priceRange = <<min, max>>
\* satisfies 0 <= min <= max and max <= 500; a slider change sets max to the slider
\* value and leaves min unchanged.
C21_PriceRangeOrdered ==
    /\ [](/\ Len(priceRange) = 2
          /\ 0 <= priceRange[1]
          /\ priceRange[1] <= priceRange[2]
          /\ priceRange[2] <= 500)
    /\ [][ ev'.op = "setPriceRange" =>
              /\ priceRange'[1] = priceRange[1]
              /\ priceRange'[2] = ParseInt(ev'.arg) ]_vars

\* the slider was dragged down to its lowest position: min = max = 0
C21_Witness ==
    /\ view = "shop" /\ ev.op = "setPriceRange"
    /\ priceRange = <<0, 0>>

\* C22: in every reachable state the selected category of a view is the sentinel
\* "all" or exactly one tag of that view's fixed category set; no sequence of user
\* actions produces any other value.
C22_CategoryInClosedSet ==
    /\ \/ selectedCategory = "all"
       \/ selectedCategory \in Range(shopCategories) \ {"all"}
    /\ \/ activeCategory = "all"
       \/ activeCategory \in Range(menuCategories)

\* the last category button was clicked after another category had been active
C22_Witness ==
    /\ view = "shop" /\ ev.op = "setSelectedCategory"
    /\ ev.arg = shopCategories[Len(shopCategories)]
    /\ selectedCategory = ev.arg
    /\ cartCount > 0

\* C23: the catalog (products, menuItems) is never mutated: every user action of every
\* view leaves its contents and order unchanged, so it always equals the static data.
C23_CatalogNeverMutated ==
    /\ [][catalog' = catalog]_vars
    /\ [](catalog.products = products /\ catalog.menuItems = menuItems)

\* a label toggle hid an item of the active category; the catalog still holds it
C23_Witness ==
    /\ view = "menu" /\ ev.op = "toggleFilter"
    /\ selectedFilters # << >>
    /\ Len(filteredItems) < Len(catalog.menuItems[activeCategory])
    /\ catalog.menuItems = menuItems

\* C24: in every reachable state with currentStep >= 2 the trimmed name is non-empty,
\* and in every reachable state with currentStep = 3 the step-2 validation predicate
\* (email contains "@", password of 6 or more characters) holds for the stored fields.
C24_WizardDataInvariant ==
    /\ currentStep >= 2 => NameValid
    /\ currentStep = 3 => AccountValid

\* C25: every transition changes currentStep by +1, by -1 or not at all, so step 3 is
\* entered only from step 2; Sign Up can be clicked only in a state with
\* currentStep = 3, and it leaves currentStep and the form data unchanged.
C25_StepsStrictlyOrdered ==
    /\ []((view = "signup" /\ ENABLED ClickSignUp) => currentStep = 3)
    /\ [][ /\ (currentStep' - currentStep) \in {0 - 1, 0, 1}
           /\ ((currentStep' = 3 /\ currentStep # 3) => currentStep = 2)
           /\ (ev'.op = "signUp" =>
                  (currentStep = 3 /\ currentStep' = 3 /\ formData' = formData)) ]_vars

\* Sign Up took effect on step 3 with the account fields and an interest filled in
C25_Witness ==
    /\ view = "signup" /\ ev.op = "signUp" /\ ev.fired
    /\ currentStep = 3
    /\ formData.password # << >> /\ formData.interests # << >>

\* every order in which the labels of the selection sel can have been toggled on
Orderings(sel) == {s \in [1..Len(sel) -> Range(filters)] : Range(s) = Range(sel)}

\* C26: the menu's visible list depends only on the active category and on the set of
\* selected labels: every toggle order that ends with the same set of labels (and the
\* same category) shows the same items in the same order.
C26_VisibleIndependentOfToggleOrder ==
    \A s \in Orderings(selectedFilters) :
        FilteredItemsOf(activeCategory, s) = filteredItems

\* two labels selected against the chips' render order, the first one hiding an item
\* that the second one shows
C26_Witness ==
    /\ view = "menu" /\ ev.op = "toggleFilter"
    /\ selectedFilters = <<filters[3], filters[1]>>
    /\ Len(filteredItems) > Len(FilteredItemsOf(activeCategory, <<filters[3]>>))
    /\ Len(FilteredItemsOf(activeCategory, <<filters[3]>>)) > 0

\* a sequence without repeated elements
NoDuplicates(seq) == \A i, j \in 1..Len(seq) : i # j => seq[i] # seq[j]

\* C27: after any sequence of toggles, selectedFilters and formData.interests hold no
\* duplicate entries and only identifiers of their fixed option lists (the filter
\* chips, the interest buttons), so each behaves as a set.
C27_SelectionsAreSets ==
    /\ NoDuplicates(selectedFilters)
    /\ Range(selectedFilters) \subseteq Range(filters)
    /\ NoDuplicates(formData.interests)
    /\ Range(formData.interests) \subseteq Range(interests)

\* every filter chip is selected, the first chip last
C27_Witness ==
    /\ view = "menu" /\ ev.op = "toggleFilter" /\ ev.arg = filters[1]
    /\ Len(selectedFilters) = Len(filters)
    /\ selectedFilters[Len(selectedFilters)] = filters[1]

\* each handler of a catalog view leaves the other state components of its view alone
ComponentsIndependent ==
    /\ (ev'.op = "setActiveCategory" => selectedFilters' = selectedFilters)
    /\ (ev'.op = "toggleFilter" => activeCategory' = activeCategory)
    /\ (ev'.op \in {"nextSlide", "prevSlide", "setCurrentSlide"} =>
            UNCHANGED <<selectedCategory, priceRange, cartCount>>)
    /\ (ev'.op \in {"setSelectedCategory", "setPriceRange"} =>
            UNCHANGED <<currentSlide, cartCount>>)

\* C28: in the menu, switching the category leaves the selected labels unchanged and
\* toggling a label leaves the active category unchanged; in the product view, carousel
\* moves leave category, price range and cart count unchanged, and category and slider
\* changes leave the carousel position and the cart count unchanged.
C28_ComponentsIndependent == [][ComponentsIndependent]_vars

\* a category was chosen while the carousel stood off the first slide with a filled cart
C28_Witness ==
    /\ view = "shop" /\ ev.op = "setSelectedCategory"
    /\ selectedCategory # "all"
    /\ currentSlide # 0 /\ cartCount > 0

\* every label selection the chips can produce: lists of distinct filter ids
Selections ==
    {s \in UNION {[1..n -> Range(filters)] : n \in 0..Len(filters)} : NoDuplicates(s)}

\* C29: for a fixed category, if the selection S is non-empty and S2 is a superset of
\* S, every item visible under S is also visible under S2: adding a label to a
\* non-empty selection never hides an item.
C29_LabelFilterMonotone ==
    selectedFilters # << >> =>
        \A s2 \in Selections :
            Range(selectedFilters) \subseteq Range(s2) =>
                Range(Ids(filteredItems))
                    \subseteq Range(Ids(FilteredItemsOf(activeCategory, s2)))

\* a second label was just added to a non-empty selection and the list grew; the
\* first label alone had hidden an item that no selection at all would show
C29_Witness ==
    /\ view = "menu" /\ ev.op = "toggleFilter"
    /\ Len(selectedFilters) = 2 /\ ev.arg = selectedFilters[2]
    /\ Len(filteredItems) > Len(FilteredItemsOf(activeCategory, <<selectedFilters[1]>>))
    /\ Len(FilteredItemsOf(activeCategory, <<selectedFilters[1]>>))
          < Len(FilteredItemsOf(activeCategory, << >>))

\* a step adds exactly 1 to the cart counter if it is an Add to Cart click and leaves
\* the counter unchanged otherwise
CartStep ==
    /\ (ev'.op = "addToCart" => cartCount' = cartCount + 1)
    /\ (ev'.op # "addToCart" => cartCount' = cartCount)
    /\ cartCount' >= cartCount

\* C30: the cart counter is 0 on mount, every Add to Cart click adds exactly 1 whatever
\* product and filter state are active, no action decreases it, and the cart badge is
\* rendered exactly when the counter is greater than 0.
C30_CartCounter ==
    /\ [](ev.op = "mount" => (cartCount = 0 /\ ~CartBadgeShown))
    /\ [](CartBadgeShown <=> cartCount > 0)
    /\ [][CartStep]_vars

\* a second product was added under an active category filter; the badge is shown
C30_Witness ==
    /\ view = "shop" /\ ev.op = "addToCart" /\ ev.arg # 1
    /\ selectedCategory # "all" /\ priceRange[2] < SliderMax
    /\ cartCount = 2 /\ CartBadgeShown

====
